---- MODULE Spec2Model ----
(***************************************************************************)
(* Model of uaclient/cli.py: the attach, detach, enable, disable and       *)
(* status sub-commands of ubuntu-advantage-client, run one invocation at a *)
(* time against the on-disk cache, the contract service, the SSO service   *)
(* and the entitlement registry.                                           *)
(***************************************************************************)
EXTENDS Integers, Sequences, FiniteSets, TLC

\* ---------------------------------------------------------------- bounds
NumEntitlements == 2
MaxResources == 2

\* ------------------------------------------------------------- constants
\* The entitlements of the module docstring, in order.
EntitlementNames == <<"esm", "fips", "fips-updates", "livepatch">>

ENTITLEMENT_CLASSES == SubSeq(EntitlementNames, 1, NumEntitlements)

ENTITLEMENT_CLASS_BY_NAME == {ENTITLEMENT_CLASSES[i] : i \in 1..Len(ENTITLEMENT_CLASSES)}

\* The keys of the cache that cli.py names.
AttachBoundKey == "bound-macaroon"

MachineTokenKey == "machine-token"

DetachDeletedKeysMut == <<"oauth">>

DetachDeletedKeys == <<"machine-token", "oauth">>

CacheKeys == {"machine-token", "bound-macaroon", "oauth"}

MOTD_UPDATES_AVAILABLE_CACHE_FILE == "motd-updates-available"

MOTD_CACHE_FILE == "motd"

\* ------------------------------------------------------------ input sets
Uids == {0, 1000}

TokenArgs == {"", "tok123", "tok456"}

RootMacaroons == {"root1"}

DischargeMacaroons == {"discharge1"}

ContractLists == {<<>>, <<"cid1">>, <<"cid2", "cid1">>}

\* Key orders of a machine token's resourceEntitlements mapping.
ResourceMappings ==
    {s \in UNION {[1..n -> ENTITLEMENT_CLASS_BY_NAME] : n \in 0..MaxResources} :
        \A i, j \in 1..Len(s) : i # j => s[i] # s[j]}

RemoteOps == {"request_root_macaroon", "prompt_request_macaroon",
              "request_accounts", "request_account_contracts",
              "request_add_contract_token", "request_contract_machine_attach",
              "request_resource_machine_access"}

IdentityOps == {"request_root_macaroon", "extract_macaroon_caveat_id",
                "prompt_request_macaroon",
                "bind_discharge_macarooon_to_root_macaroon"}

VARIABLES
    cache,          \* CredentialStore: key -> <<>> (absent) or <<value>>
    enabled,        \* entitlement name -> activated on this machine
    motd,           \* motd cache files written so far
    pc,             \* position of the running invocation
    command,        \* sub-command of the running / last invocation
    uid,            \* os.getuid() of the running / last invocation
    args,           \* parsed arguments
    trace,          \* calls made by the running / last invocation, in order
    ret,            \* value returned by the action ("-" while running)
    root_macaroon, user_token, sso_token, contracts, contract_id,
    contract_token,
    todo,           \* rest of the loop being iterated
    partial,        \* last attach run ended after Bound, before MachineTokenIssued
    resumed,        \* value of partial when the running invocation started
    attachOk,       \* the attachment in force comes from an attach that returned 0
    start           \* cache, enabled and motd when the running invocation started

vars == <<cache, enabled, motd, pc, command, uid, args, trace, ret,
          root_macaroon, user_token, sso_token, contracts, contract_id,
          contract_token, todo, partial, resumed, attachOk, start>>

locals == <<root_macaroon, user_token, sso_token, contracts, contract_id,
            contract_token>>

Event(op, a, b, res) == [op |-> op, a |-> a, b |-> b, res |-> res]

\* ------------------------------------------------- collaborators' models
\* config.UAConfig.is_attached
is_attached(c) == c[MachineTokenKey] # <<>>

\* config.UAConfig.write_cache / delete_cache
write_cache(c, key, value) == [c EXCEPT ![key] = <<value>>]

delete_cache(c, key) == [c EXCEPT ![key] = <<>>]

\* contract.UAContractClient.request_add_contract_token: the token minted
\* for a contract id.
ContractTokenFor(cid) == IF cid = "cid1" THEN "ctok1" ELSE "ctok2"

\* sso.bind_discharge_macarooon_to_root_macaroon: the possible results.
BindResults(discharge, root) == {"", "bound1"}

\* sys.exit(main()): the process exit status of a returned value.
ExitCode(r) == IF r = "1" THEN 1 ELSE 0

\* ------------------------------------------------------ cli.py decisions
\* os.getuid() != 0
NonRootMut(u) == FALSE

NonRoot(u) == u # 0

\* if cfg.is_attached: ... return 0   (action_attach)
AttachShortCircuitsMut(c) == FALSE

AttachShortCircuits(c) == is_attached(c)

\* if not args.token
TokenMissingMut(token) == TRUE

TokenMissing(token) == token = ""

\* cfg.write_cache('bound-macaroon', sso_token)
PersistBoundMut(c, tok) == c

PersistBound(c, tok) == write_cache(c, AttachBoundKey, tok)

\* bool(args and args.update_motd); present = FALSE models args=None
update_motd_Mut(a) == TRUE

update_motd(a) == a.present /\ a.update_motd

\* if ent.can_disable(silent=True): ent.disable(silent=True)
DetachDisablesMut(can) == FALSE

DetachDisablesAlways(can) == TRUE

DetachDisables(can) == can

\* the for loop of action_detach runs over the whole registry
DetachLoopItemsMut(classes) == <<>>

DetachLoopItems(classes) == classes

\* the two preconditions of action_detach, in the order they are checked
DetachPreconditionMut(c, u) ==
    IF NonRoot(u) THEN "MESSAGE_NONROOT_USER"
    ELSE IF ~is_attached(c) THEN "not attached"
    ELSE "ok"

DetachPrecondition(c, u) ==
    IF ~is_attached(c) THEN "not attached"
    ELSE IF NonRoot(u) THEN "MESSAGE_NONROOT_USER"
    ELSE "ok"

\* the loop of action_detach goes on to the next class whatever disable
\* returned (its result is not looked at)
DetachRestMut(ok, rest) == IF ok THEN rest ELSE <<>>

DetachRest(ok, rest) == rest

\* contracts['contracts'][0]['contractInfo']['id']
FirstContractIdMut(cl) == cl[Len(cl)]

FirstContractId(cl) == cl[1]

\* for entitlement_name in contractInfo['resourceEntitlements'].keys()
ResourceLoopItemsMut(rm) == IF rm = <<>> THEN rm ELSE Tail(rm)

ResourceLoopItems(rm) == rm

\* if not sso_token
TokenEmptyMut(tok) == FALSE

TokenEmpty(tok) == tok = ""

\* ------------------------------------------------------------------ Init
None == [present |-> FALSE, token |-> "", update_motd |-> FALSE, name |-> ""]

Init ==
    /\ cache = [k \in CacheKeys |-> <<>>]
    /\ enabled = [e \in ENTITLEMENT_CLASS_BY_NAME |-> FALSE]
    /\ motd = {}
    /\ pc = "idle"
    /\ command = ""
    /\ uid = 0
    /\ args = None
    /\ trace = <<>>
    /\ ret = "-"
    /\ root_macaroon = "" /\ user_token = "" /\ sso_token = ""
    /\ contracts = <<>> /\ contract_id = "" /\ contract_token = ""
    /\ todo = <<>>
    /\ partial = FALSE
    /\ resumed = FALSE
    /\ attachOk = FALSE
    /\ start = [cache |-> cache, enabled |-> enabled, motd |-> motd]

Idle == pc \in {"idle", "returned", "raised"}

\* main(): parse the arguments and dispatch to args.action(args, cfg).
main ==
    /\ Idle
    /\ \E c \in {"attach", "detach", "enable", "disable", "status"},
          u \in Uids, t \in TokenArgs, m \in BOOLEAN,
          n \in ENTITLEMENT_CLASS_BY_NAME :
        /\ command' = c
        /\ uid' = u
        /\ args' = [present |-> TRUE,
                    token |-> IF c = "attach" THEN t ELSE "",
                    update_motd |-> IF c = "status" THEN m ELSE FALSE,
                    name |-> IF c \in {"enable", "disable"} THEN n ELSE ""]
        /\ (c # "attach" => t = "")
        /\ (c # "status" => m = FALSE)
        /\ (c \notin {"enable", "disable"} => n = ENTITLEMENT_CLASSES[1])
        /\ pc' = c
    /\ trace' = <<>>
    /\ ret' = "-"
    /\ root_macaroon' = "" /\ user_token' = "" /\ sso_token' = ""
    /\ contracts' = <<>> /\ contract_id' = "" /\ contract_token' = ""
    /\ todo' = <<>>
    /\ resumed' = partial
    /\ start' = [cache |-> cache, enabled |-> enabled, motd |-> motd]
    /\ UNCHANGED <<cache, enabled, motd, partial, attachOk>>

Return(r) == pc' = "returned" /\ ret' = r

Raise == pc' = "raised" /\ ret' = "-"

\* --------------------------------------------------------- action_status
\* The calls action_status(a, cfg) makes on cache c.
StatusEvents(a, c) ==
    (IF update_motd(a)
     THEN <<Event("write_file", MOTD_UPDATES_AVAILABLE_CACHE_FILE, "", "ok"),
            Event("write_file", MOTD_CACHE_FILE, "", "ok"),
            Event("print", "esm_status", "", "ok"),
            Event("print", "ua_motd_status", "", "ok")>>
     ELSE <<>>)
    \o (IF ~is_attached(c)
        THEN <<Event("print", "MESSAGE_UNATTACHED", "", "ok")>>
        ELSE <<Event("print", "status_content", "", "ok")>>)

\* The motd files after action_status(a, cfg).
StatusMotd(a, m) ==
    IF update_motd(a)
    THEN m \cup {MOTD_UPDATES_AVAILABLE_CACHE_FILE, MOTD_CACHE_FILE}
    ELSE m

action_status ==
    /\ pc = "status"
    /\ trace' = trace \o StatusEvents(args, cache)
    /\ motd' = StatusMotd(args, motd)
    /\ Return("None")
    /\ UNCHANGED <<cache, enabled, command, uid, args, locals, todo,
                   partial, resumed, attachOk, start>>

\* ----------------------------------------------- entitlements (registry)
\* Entitlement.can_disable(silent): only an activated entitlement of a
\* privileged caller can be disableable.
CanDisableResults(e, u, en) == IF u # 0 \/ ~en[e] THEN {FALSE} ELSE BOOLEAN

\* Entitlement.disable(silent): best effort, reports whether it disabled.
DisableResults(e, u, en, c) ==
    IF u # 0 \/ ~en[e] \/ ~is_attached(c) THEN {FALSE} ELSE BOOLEAN

\* Entitlement.enable(): needs privilege and an attached machine.
EnableResults(e, u, en, c) ==
    IF u # 0 \/ ~is_attached(c) THEN {FALSE} ELSE BOOLEAN

BoolStr(b) == IF b THEN "True" ELSE "False"

\* ------------------------------------------- action_enable/action_disable
action_enable ==
    /\ pc = "enable"
    /\ \E ok \in EnableResults(args.name, uid, enabled, cache) :
        /\ trace' = Append(trace, Event("enable", args.name, "", BoolStr(ok)))
        /\ enabled' = [enabled EXCEPT ![args.name] = IF ok THEN TRUE ELSE @]
        /\ Return(IF ok THEN "0" ELSE "1")
    /\ UNCHANGED <<cache, motd, command, uid, args, locals, todo,
                   partial, resumed, attachOk, start>>

action_disable ==
    /\ pc = "disable"
    /\ \E ok \in DisableResults(args.name, uid, enabled, cache) :
        /\ trace' = Append(trace, Event("disable", args.name, "", BoolStr(ok)))
        /\ enabled' = [enabled EXCEPT ![args.name] = IF ok THEN FALSE ELSE @]
        /\ Return(IF ok THEN "0" ELSE "1")
    /\ UNCHANGED <<cache, motd, command, uid, args, locals, todo,
                   partial, resumed, attachOk, start>>

\* --------------------------------------------------------- action_detach
\* Lines 176-184: the two preconditions, then the loop is entered.
action_detach ==
    /\ pc = "detach"
    /\ IF DetachPrecondition(cache, uid) # "ok"
       THEN /\ trace' = Append(trace,
                   Event("print", DetachPrecondition(cache, uid), "", "ok"))
            /\ Return("1")
            /\ todo' = todo
       ELSE /\ trace' = trace
            /\ todo' = DetachLoopItems(ENTITLEMENT_CLASSES)
            /\ pc' = "detach_loop"
            /\ ret' = ret
    /\ UNCHANGED <<cache, enabled, motd, command, uid, args, locals,
                   partial, resumed, attachOk, start>>

\* Lines 185-188: one iteration of the loop over ENTITLEMENT_CLASSES.
detach_loop ==
    /\ pc = "detach_loop"
    /\ todo # <<>>
    /\ LET e == Head(todo) IN
       \E can \in CanDisableResults(e, uid, enabled) :
         IF DetachDisables(can)
         THEN \E ok \in DisableResults(e, uid, enabled, cache) :
                /\ trace' = trace \o
                       <<Event("can_disable", e, "silent", BoolStr(can)),
                         Event("disable", e, "silent", BoolStr(ok))>>
                /\ enabled' = [enabled EXCEPT ![e] = IF ok THEN FALSE ELSE @]
                /\ todo' = DetachRest(ok, Tail(todo))
         ELSE /\ trace' = Append(trace,
                       Event("can_disable", e, "silent", BoolStr(can)))
              /\ enabled' = enabled
              /\ todo' = Tail(todo)
    /\ UNCHANGED <<cache, motd, pc, command, uid, args, ret, locals,
                   partial, resumed, attachOk, start>>

RECURSIVE DeleteAll(_, _)
DeleteAll(c, keys) ==
    IF keys = <<>> THEN c
    ELSE DeleteAll(delete_cache(c, Head(keys)), Tail(keys))

\* Lines 189-192: delete the cache entries, report, return 0.
detach_delete ==
    /\ pc = "detach_loop"
    /\ todo = <<>>
    /\ cache' = DeleteAll(cache, DetachDeletedKeys)
    /\ trace' = trace \o
          [i \in 1..Len(DetachDeletedKeys) |->
              Event("delete_cache", DetachDeletedKeys[i], "", "ok")]
          \o <<Event("print", "now detached", "", "ok")>>
    /\ Return("0")
    /\ UNCHANGED <<enabled, motd, command, uid, args, locals, todo,
                   partial, resumed, attachOk, start>>

\* --------------------------------------------------------- action_attach
\* Lines 217-221: refuse an empty token, else persist it and go on to the
\* accounts request.
AfterToken(t1, tok) ==
    IF TokenEmpty(tok)
    THEN /\ trace' = Append(t1, Event("print", "Could not attach machine", "", "ok"))
         /\ Return("1")
         /\ cache' = cache
    ELSE /\ trace' = Append(t1, Event("write_cache", AttachBoundKey, tok, "ok"))
         /\ cache' = PersistBound(cache, tok)
         /\ pc' = "request_accounts"
         /\ ret' = ret

\* Lines 196-204 and 215-221: the guards, then the choice of the path.
action_attach ==
    /\ pc = "attach"
    /\ IF AttachShortCircuits(cache)
       THEN /\ trace' = Append(trace, Event("print", "already attached", "", "ok"))
            /\ Return("0")
            /\ UNCHANGED <<cache, sso_token, attachOk>>
       ELSE IF NonRoot(uid)
       THEN /\ trace' = Append(trace, Event("print", "MESSAGE_NONROOT_USER", "", "ok"))
            /\ Return("1")
            /\ UNCHANGED <<cache, sso_token, attachOk>>
       ELSE IF TokenMissing(args.token)
       THEN /\ pc' = "request_root_macaroon"
            /\ attachOk' = FALSE
            /\ UNCHANGED <<cache, sso_token, trace, ret>>
       ELSE /\ sso_token' = args.token
            /\ attachOk' = FALSE
            /\ AfterToken(trace, args.token)
    /\ UNCHANGED <<enabled, motd, command, uid, args, root_macaroon,
                   user_token, contracts, contract_id, contract_token, todo,
                   partial, resumed, start>>

\* Line 206, and lines 210-212 when it fails.
request_root_macaroon ==
    /\ pc = "request_root_macaroon"
    /\ \/ \E r \in RootMacaroons :
            /\ root_macaroon' = r
            /\ trace' = Append(trace, Event("request_root_macaroon", "", "", "ok"))
            /\ pc' = "extract_macaroon_caveat_id"
            /\ ret' = ret
       \/ /\ trace' = trace \o
                <<Event("request_root_macaroon", "", "", "UrlError"),
                  Event("logging.error", "Could not reach url", "", "ok")>>
          /\ Return("1")
          /\ root_macaroon' = root_macaroon
    /\ UNCHANGED <<cache, enabled, motd, command, uid, args, user_token,
                   sso_token, contracts, contract_id, contract_token,
                   todo,
                   partial, resumed, attachOk, start>>

\* Lines 207-208.
extract_macaroon_caveat_id ==
    /\ pc = "extract_macaroon_caveat_id"
    /\ trace' = Append(trace,
           Event("extract_macaroon_caveat_id", root_macaroon, "", "ok"))
    /\ pc' = "prompt_request_macaroon"
    /\ UNCHANGED <<cache, enabled, motd, command, uid, args, ret, locals,
                   todo, partial, resumed, attachOk, start>>

\* Line 209: the interactive login.  A UrlError is handled by lines
\* 210-212; an SSOAuthError is not named by that except clause.
prompt_request_macaroon ==
    /\ pc = "prompt_request_macaroon"
    /\ \/ \E d \in DischargeMacaroons :
            /\ user_token' = d
            /\ trace' = Append(trace, Event("prompt_request_macaroon", "", "", "ok"))
            /\ pc' = "bind"
            /\ ret' = ret
       \/ /\ trace' = trace \o
                <<Event("prompt_request_macaroon", "", "", "UrlError"),
                  Event("logging.error", "Could not reach url", "", "ok")>>
          /\ Return("1")
          /\ user_token' = user_token
       \/ /\ trace' = Append(trace,
                Event("prompt_request_macaroon", "", "", "SSOAuthError"))
          /\ Raise
          /\ user_token' = user_token
    /\ UNCHANGED <<cache, enabled, motd, command, uid, args, root_macaroon,
                   sso_token, contracts, contract_id, contract_token,
                   todo,
                   partial, resumed, attachOk, start>>

\* Lines 213-214, then 217-221.
bind_discharge ==
    /\ pc = "bind"
    /\ \E b \in BindResults(user_token, root_macaroon) :
        /\ sso_token' = b
        /\ AfterToken(Append(trace,
                 Event("bind_discharge_macarooon_to_root_macaroon",
                       user_token, root_macaroon, "ok")), b)
    /\ UNCHANGED <<enabled, motd, command, uid, args, root_macaroon,
                   user_token, contracts, contract_id, contract_token, todo,
                   partial, resumed, attachOk, start>>

\* Lines 230-232: a failed request of the try block is logged, attach
\* returns 1.
AttachExcept(op, a, b, err) ==
    /\ trace' = trace \o <<Event(op, a, b, err),
                           Event("logging.error", err, "", "ok")>>
    /\ Return("1")
    /\ partial' = TRUE

RequestErrors == {"UrlError", "SSOAuthError"}

\* Line 223.
request_accounts ==
    /\ pc = "request_accounts"
    /\ \/ /\ trace' = Append(trace, Event("request_accounts", sso_token, "", "ok"))
          /\ pc' = "request_account_contracts"
          /\ UNCHANGED <<ret, partial>>
       \/ \E err \in RequestErrors : AttachExcept("request_accounts", sso_token, "", err)
    /\ UNCHANGED <<cache, enabled, motd, command, uid, args, locals, todo,
                   resumed, attachOk, start>>

\* Lines 224-225: the contracts request, then the id of the first contract
\* (an IndexError when the list is empty).
request_account_contracts ==
    /\ pc = "request_account_contracts"
    /\ \/ \E cl \in ContractLists :
            /\ trace' = Append(trace,
                   Event("request_account_contracts", sso_token, "", "ok"))
            /\ contracts' = cl
            /\ IF cl = <<>>
               THEN Raise /\ partial' = TRUE /\ contract_id' = contract_id
               ELSE /\ contract_id' = FirstContractId(cl)
                    /\ pc' = "request_add_contract_token"
                    /\ UNCHANGED <<ret, partial>>
       \/ /\ \E err \in RequestErrors :
                AttachExcept("request_account_contracts", sso_token, "", err)
          /\ UNCHANGED <<contracts, contract_id>>
    /\ UNCHANGED <<cache, enabled, motd, command, uid, args, root_macaroon,
                   user_token, sso_token, contract_token, todo,
                   resumed, attachOk, start>>

\* Lines 226-227.
request_add_contract_token ==
    /\ pc = "request_add_contract_token"
    /\ \/ /\ trace' = Append(trace,
                Event("request_add_contract_token", sso_token, contract_id, "ok"))
          /\ contract_token' = ContractTokenFor(contract_id)
          /\ pc' = "request_contract_machine_attach"
          /\ UNCHANGED <<ret, partial>>
       \/ /\ \E err \in RequestErrors :
                AttachExcept("request_add_contract_token", sso_token, contract_id, err)
          /\ contract_token' = contract_token
    /\ UNCHANGED <<cache, enabled, motd, command, uid, args, root_macaroon,
                   user_token, sso_token, contracts, contract_id, todo,
                   resumed, attachOk, start>>

\* Lines 228-229 and 233-234: the machine-token exchange; the contract
\* client persists the machine token it obtained.
request_contract_machine_attach ==
    /\ pc = "request_contract_machine_attach"
    /\ \/ \E rm \in ResourceMappings :
            /\ trace' = trace \o
                 <<Event("request_contract_machine_attach", contract_token, "", "ok"),
                   Event("write_cache", MachineTokenKey, contract_token, "ok")>>
            /\ cache' = write_cache(cache, MachineTokenKey,
                   [contractToken |-> contract_token,
                    resourceEntitlements |-> rm])
            /\ todo' = ResourceLoopItems(rm)
            /\ partial' = FALSE
            /\ pc' = "resource_loop"
            /\ ret' = ret
       \/ /\ \E err \in RequestErrors :
                AttachExcept("request_contract_machine_attach", contract_token, "", err)
          /\ UNCHANGED <<cache, todo>>
    /\ UNCHANGED <<enabled, motd, command, uid, args, locals,
                   resumed, attachOk, start>>

\* Lines 234-237: one iteration of the loop over the resource names; no
\* except clause surrounds the request.
request_resource_machine_access ==
    /\ pc = "resource_loop"
    /\ todo # <<>>
    /\ \/ /\ trace' = Append(trace,
                Event("request_resource_machine_access",
                      cache[MachineTokenKey][1].contractToken, Head(todo), "ok"))
          /\ todo' = Tail(todo)
          /\ UNCHANGED <<pc, ret>>
       \/ /\ trace' = Append(trace,
                Event("request_resource_machine_access",
                      cache[MachineTokenKey][1].contractToken, Head(todo), "UrlError"))
          /\ Raise
          /\ todo' = todo
    /\ UNCHANGED <<cache, enabled, motd, command, uid, args, locals,
                   partial, resumed, attachOk, start>>

\* Lines 238-241: report, print the status, return 0.
attach_finish ==
    /\ pc = "resource_loop"
    /\ todo = <<>>
    /\ trace' = trace \o <<Event("print", "now attached", "", "ok")>>
                      \o StatusEvents(None, cache)
    /\ motd' = StatusMotd(None, motd)
    /\ Return("0")
    /\ attachOk' = TRUE
    /\ UNCHANGED <<cache, enabled, command, uid, args, locals, todo,
                   partial, resumed, start>>

\* ------------------------------------------------------------------ Next
Next ==
    \/ main
    \/ action_status
    \/ action_enable
    \/ action_disable
    \/ action_detach
    \/ detach_loop
    \/ detach_delete
    \/ action_attach
    \/ request_root_macaroon
    \/ extract_macaroon_caveat_id
    \/ prompt_request_macaroon
    \/ bind_discharge
    \/ request_accounts
    \/ request_account_contracts
    \/ request_add_contract_token
    \/ request_contract_machine_attach
    \/ request_resource_machine_access
    \/ attach_finish

Spec == Init /\ [][Next]_vars

TypeOK ==
    /\ pc \in {"idle", "returned", "raised", "status", "enable", "disable",
               "detach", "detach_loop", "attach", "request_root_macaroon",
               "extract_macaroon_caveat_id", "prompt_request_macaroon", "bind",
               "request_accounts", "request_account_contracts",
               "request_add_contract_token", "request_contract_machine_attach",
               "resource_loop"}
    /\ ret \in {"-", "0", "1", "None"}
    /\ motd \subseteq {MOTD_UPDATES_AVAILABLE_CACHE_FILE, MOTD_CACHE_FILE}
    /\ \A e \in ENTITLEMENT_CLASS_BY_NAME : enabled[e] \in BOOLEAN

\* ---------------------------------------------------------- properties
Idx == 1..Len(trace)

StoreOps == {"write_cache", "delete_cache"}

NoRemoteCall == \A i \in Idx : trace[i].op \notin RemoteOps

NoStoreCall == \A i \in Idx : trace[i].op \notin StoreOps

\* No entitlement was switched on or off by a call of this invocation.
NoEntitlementMutation ==
    /\ enabled = start.enabled
    /\ \A i \in Idx : trace[i].op \in {"enable", "disable"} => trace[i].res = "False"

Finished == pc \in {"returned", "raised"}

\* C1. Attach idempotence: attach invoked on an already-attached machine
\* issues no remote call, performs no credential-store write or delete, and
\* returns exit code 0.
C1_AttachIdempotent ==
    (command = "attach" /\ is_attached(start.cache)) =>
        /\ NoRemoteCall
        /\ NoStoreCall
        /\ cache = start.cache
        /\ pc \in {"attach", "returned"}
        /\ (pc = "returned" => ret = "0" /\ ExitCode(ret) = 0)

C1_Witness ==
    /\ command = "attach" /\ is_attached(start.cache)
    /\ pc = "returned" /\ ret = "0"
    /\ trace # <<>>

\* C2 as stated. Privilege gating: attach, detach, enable and disable
\* invoked with uid != 0 perform no network call and no cache-mutating call
\* and return exit code 1, in every attachment state.
GatedCommands == {"attach", "detach", "enable", "disable"}

C2_Original ==
    (command \in GatedCommands /\ uid # 0) =>
        /\ NoRemoteCall
        /\ NoStoreCall /\ cache = start.cache
        /\ NoEntitlementMutation
        /\ pc \in {command, "returned"}
        /\ (pc = "returned" => ExitCode(ret) = 1)

\* C2 as amended. Privilege gating: attach, detach, enable and disable
\* invoked with uid != 0 perform no network call and no cache-mutating call;
\* they return exit code 1, except attach on an already-attached machine,
\* which returns exit code 0.
C2_PrivilegeGating ==
    (command \in GatedCommands /\ uid # 0) =>
        /\ NoRemoteCall
        /\ NoStoreCall /\ cache = start.cache
        /\ NoEntitlementMutation
        /\ pc \in {command, "returned"}
        /\ (pc = "returned" =>
               ExitCode(ret) = IF command = "attach" /\ is_attached(start.cache)
                               THEN 0 ELSE 1)

C2_Witness ==
    /\ command = "detach" /\ uid # 0
    /\ is_attached(start.cache)
    /\ pc = "returned" /\ ret = "1"

\* C3. Detach ordering: in a detach run that passes its preconditions, the
\* can-disable check (and, when true, the disable call) of every entitlement
\* of the registry precedes the deletion of machine-token, and no
\* entitlement check or disable follows any credential deletion.
C3_DetachOrdering ==
    command = "detach" =>
        /\ \A i \in Idx : trace[i].op = "delete_cache" =>
              \A j \in Idx : j > i => trace[j].op \notin {"can_disable", "disable"}
        /\ \A i \in Idx :
              (trace[i].op = "delete_cache" /\ trace[i].a = MachineTokenKey) =>
                 \A e \in ENTITLEMENT_CLASS_BY_NAME :
                    \E j \in 1..(i - 1) :
                       /\ trace[j].op = "can_disable" /\ trace[j].a = e
                       /\ trace[j].res = "True" =>
                             (j + 1 < i /\ trace[j + 1].op = "disable"
                                        /\ trace[j + 1].a = e)
        /\ (cache # start.cache =>
               \E i \in Idx : trace[i].op = "delete_cache")

C3_Witness ==
    /\ command = "detach" /\ pc = "returned" /\ ret = "0"
    /\ ~is_attached(cache)
    /\ \E i \in Idx : trace[i].op = "can_disable" /\ trace[i].res = "True"
    /\ \E i \in Idx : trace[i].op = "can_disable" /\ trace[i].res = "False"

\* C4. Detach postcondition: after a successful attach followed by a
\* successful detach the credential store holds neither machine-token nor
\* the entry under which attach persisted the bound token.
C4_DetachPostcondition ==
    (command = "detach" /\ pc = "returned" /\ ret = "0" /\ attachOk) =>
        /\ cache[MachineTokenKey] = <<>>
        /\ cache[AttachBoundKey] = <<>>

\* C5 as stated. No stale activation: once detach has deleted machine-token
\* no entitlement of the registry is still enabled.
C5_Original ==
    (command = "detach" /\ is_attached(start.cache) /\ ~is_attached(cache)) =>
        \A e \in ENTITLEMENT_CLASS_BY_NAME : ~enabled[e]

\* C5 as amended. Once detach has deleted machine-token, every entitlement
\* whose can-disable check was true has had disable called before the
\* deletion, and an entitlement is still enabled only if its can-disable
\* check was false or its disable call reported failure.
C5_NoStaleActivation ==
    (command = "detach" /\ is_attached(start.cache) /\ ~is_attached(cache)) =>
        \A e \in ENTITLEMENT_CLASS_BY_NAME :
            /\ \A j \in Idx :
                  (trace[j].op = "can_disable" /\ trace[j].a = e
                       /\ trace[j].res = "True") =>
                     (j < Len(trace) /\ trace[j + 1].op = "disable"
                                     /\ trace[j + 1].a = e)
            /\ enabled[e] =>
                  \E j \in Idx :
                     /\ trace[j].a = e
                     /\ trace[j].res = "False"
                     /\ trace[j].op \in {"can_disable", "disable"}

C5_Witness ==
    /\ command = "detach" /\ pc = "returned" /\ ret = "0"
    /\ ~is_attached(cache)
    /\ \E e \in ENTITLEMENT_CLASS_BY_NAME : start.enabled[e] /\ ~enabled[e]
    /\ \E e \in ENTITLEMENT_CLASS_BY_NAME : start.enabled[e] /\ enabled[e]

\* The requests between Bound and MachineTokenIssued.
BoundStepOps == {"request_accounts", "request_account_contracts",
                 "request_add_contract_token",
                 "request_contract_machine_attach"}

FailedAt(ops) == \E i \in Idx : trace[i].op \in ops /\ trace[i].res # "ok"

\* C6. Atomicity of partial progress: when the accounts, contracts,
\* contract-token or machine-token request of an attach run fails, attach
\* returns exit code 1 with the bound token in the credential store and no
\* machine-token there.
C6_PartialProgress ==
    (command = "attach" /\ FailedAt(BoundStepOps)) =>
        /\ pc = "returned" /\ ret = "1" /\ ExitCode(ret) = 1
        /\ sso_token # ""
        /\ cache[AttachBoundKey] = <<sso_token>>
        /\ cache[MachineTokenKey] = <<>>

C6_Witness ==
    /\ command = "attach" /\ pc = "returned"
    /\ FailedAt({"request_contract_machine_attach"})
    /\ cache[AttachBoundKey] # <<>>

\* C7. Resumption without re-authentication: an attach run that follows an
\* attach run which failed after Bound and before MachineTokenIssued (bound
\* token persisted, machine-token absent), re-run without a token argument,
\* does not invoke the interactive login, and passes the persisted bound
\* token to the accounts, contracts and contract-token requests.
C7_ResumeWithoutLogin ==
    (command = "attach" /\ resumed /\ uid = 0 /\ args.token = ""
        /\ start.cache[AttachBoundKey] # <<>> /\ ~is_attached(start.cache)) =>
        \A i \in Idx :
            /\ trace[i].op # "prompt_request_macaroon"
            /\ trace[i].op \in (BoundStepOps \ {"request_contract_machine_attach"})
                  => <<trace[i].a>> = start.cache[AttachBoundKey]

\* The names a resource-access request was issued for.
Requested == {trace[i].b : i \in {j \in Idx : trace[j].op = "request_resource_machine_access"}}

FailedGrants == {i \in Idx : trace[i].op = "request_resource_machine_access"
                              /\ trace[i].res # "ok"}

\* C8. Partial-failure tolerance: when exactly one per-entitlement
\* resource-access request of an attach run fails, the requests for the
\* other names of the machine token are still issued, machine-token stays
\* persisted and attach returns exit code 0 after the status summary.
C8_PartialFailureTolerance ==
    (command = "attach" /\ Finished /\ Cardinality(FailedGrants) = 1) =>
        /\ is_attached(cache)
        /\ LET rm == cache[MachineTokenKey][1].resourceEntitlements
           IN  \A k \in 1..Len(rm) : rm[k] \in Requested
        /\ pc = "returned" /\ ret = "0"
        /\ trace[Len(trace)].op = "print"

\* C9. Explicit-token path: with a non-empty token argument, a privileged
\* attach on an unattached machine performs no identity-exchange step and
\* passes exactly that token to the accounts, contracts and contract-token
\* requests.
C9_ExplicitToken ==
    (command = "attach" /\ uid = 0 /\ ~is_attached(start.cache)
        /\ args.token # "") =>
        /\ \A i \in Idx : trace[i].op \notin IdentityOps
        /\ \A i \in Idx :
              trace[i].op \in (BoundStepOps \ {"request_contract_machine_attach"})
                 => trace[i].a = args.token
        /\ pc \notin {"request_root_macaroon", "extract_macaroon_caveat_id",
                      "prompt_request_macaroon", "bind"}
        /\ (pc # "attach" => cache[AttachBoundKey] = <<args.token>>)

C9_Witness ==
    /\ command = "attach" /\ args.token = "tok123"
    /\ start.cache[AttachBoundKey] = <<"tok456">>
    /\ \E i \in Idx : trace[i].op = "request_add_contract_token"
                       /\ trace[i].a = "tok123" /\ trace[i].res = "ok"

MotdFiles == {MOTD_UPDATES_AVAILABLE_CACHE_FILE, MOTD_CACHE_FILE}

\* C10. Status is a pure read: in every state and in both modes status
\* issues no remote call, writes or deletes no credential-store key and
\* enables or disables no entitlement; unattached, it emits the not-attached
\* message and exits 0; it writes only the two motd files, and only with
\* --update-motd.
C10_StatusPureRead ==
    command = "status" =>
        /\ NoRemoteCall
        /\ NoStoreCall /\ cache = start.cache
        /\ enabled = start.enabled
        /\ \A i \in Idx : trace[i].op \in {"write_file", "print"}
        /\ \A i \in Idx : trace[i].op = "write_file" =>
              (args.update_motd /\ trace[i].a \in MotdFiles)
        /\ motd = IF args.update_motd /\ pc # "status"
                  THEN start.motd \cup MotdFiles ELSE start.motd
        /\ pc \in {"status", "returned"}
        /\ (pc = "returned" /\ ~is_attached(start.cache)) =>
              /\ trace[Len(trace)] = Event("print", "MESSAGE_UNATTACHED", "", "ok")
              /\ ExitCode(ret) = 0

C10_Witness ==
    /\ command = "status" /\ pc = "returned"
    /\ ~is_attached(start.cache)
    /\ args.update_motd
    /\ start.motd = {} /\ motd = MotdFiles

\* C11. Detach preconditions are checked in order and short-circuit: on an
\* unattached machine detach returns 1 with the not-attached outcome
\* whatever the uid; on an attached machine without privilege it returns 1
\* with the permission outcome; in both cases no entitlement is queried or
\* disabled and the credential store is unchanged.
C11_DetachPreconditions ==
    (command = "detach"
        /\ (~is_attached(start.cache) \/ uid # 0)) =>
        /\ pc \in {"detach", "returned"}
        /\ cache = start.cache
        /\ enabled = start.enabled
        /\ \A i \in Idx : trace[i].op \notin {"can_disable", "disable"}
        /\ pc = "returned" =>
              /\ ret = "1" /\ ExitCode(ret) = 1
              /\ trace = <<Event("print",
                                 IF ~is_attached(start.cache)
                                 THEN "not attached"
                                 ELSE "MESSAGE_NONROOT_USER", "", "ok")>>

C11_Witness ==
    /\ command = "detach" /\ pc = "returned" /\ ret = "1"
    /\ ~is_attached(start.cache) /\ uid # 0
    /\ \E e \in ENTITLEMENT_CLASS_BY_NAME : enabled[e]

\* The remote steps of attach whose failure is fatal.
FatalStepOps == {"request_root_macaroon", "prompt_request_macaroon"}
                    \cup BoundStepOps

\* C12. Every fatal protocol-step error in attach is a handled failure:
\* whichever of the root-authorization request, the interactive login
\* (NetworkError or AuthenticationError), the accounts, contracts,
\* contract-token or machine-token request fails, attach issues no further
\* step, reports the error and returns exit code 1.
C12_FatalErrorsHandled ==
    (command = "attach" /\ FailedAt(FatalStepOps)) =>
        /\ pc = "returned"
        /\ ret = "1" /\ ExitCode(ret) = 1
        /\ trace[Len(trace)].op = "logging.error"
        /\ Len(trace) > 1
        /\ trace[Len(trace) - 1].res # "ok"
        /\ \A i \in 1..(Len(trace) - 2) : trace[i].res = "ok"

\* C13. Attachment state tracks machine-token over any sequence of attach,
\* detach and status runs: when attach returns 0 machine-token is present,
\* when detach returns 0 it is absent, a failed detach or a status run
\* leaves its presence unchanged, and it becomes present only through a
\* machine-token exchange performed by attach.
C13_AttachmentTracksMachineToken ==
    /\ (command = "attach" /\ pc = "returned" /\ ret = "0") => is_attached(cache)
    /\ (command = "detach" /\ pc = "returned" /\ ret = "0") => ~is_attached(cache)
    /\ (command = "detach" /\ pc = "returned" /\ ret = "1") =>
           (is_attached(cache) <=> is_attached(start.cache))
    /\ command = "status" => (is_attached(cache) <=> is_attached(start.cache))
    /\ (is_attached(cache) /\ ~is_attached(start.cache)) =>
           /\ command = "attach"
           /\ \E i \in Idx : /\ trace[i].op = "request_contract_machine_attach"
                             /\ trace[i].res = "ok"
    /\ (is_attached(cache) /\ is_attached(start.cache)) =>
           cache[MachineTokenKey] = start.cache[MachineTokenKey]

C13_Witness ==
    /\ command = "detach" /\ pc = "returned" /\ ret = "0"
    /\ is_attached(start.cache) /\ ~is_attached(cache)
    /\ attachOk

\* The remote calls attach makes once it holds a bound token, and their
\* place in the order of lines 223-237.
AfterBoundOps == BoundStepOps \cup {"request_resource_machine_access"}

Rank(op) ==
    CASE op = "request_accounts" -> 1
      [] op = "request_account_contracts" -> 2
      [] op = "request_add_contract_token" -> 3
      [] op = "request_contract_machine_attach" -> 4
      [] op = "request_resource_machine_access" -> 5

IsBoundWrite(ev) ==
    ev.op = "write_cache" /\ ev.a = AttachBoundKey /\ ev.b = sso_token

\* The names of the resource-access requests issued so far, in order.
GrantNames ==
    LET sel == SelectSeq(trace,
                   LAMBDA ev : ev.op = "request_resource_machine_access")
    IN  [k \in 1..Len(sel) |-> sel[k].b]

\* C14. Attach step ordering: the bound token is persisted before any
\* further remote call; then come, strictly in this order and each only
\* after all earlier ones succeeded, the accounts request, the contracts
\* request, the contract-token request for the id of the first contract
\* returned, the machine-token exchange with that contract token, the
\* per-entitlement resource-access requests, and last the status summary.
C14_AttachStepOrder ==
    command = "attach" =>
        /\ \A i \in Idx : trace[i].op \in AfterBoundOps =>
              /\ \E w \in 1..(i - 1) :
                    /\ IsBoundWrite(trace[w])
                    /\ \A j \in 1..(w - 1) : trace[j].op \notin AfterBoundOps
              /\ cache[AttachBoundKey] = <<sso_token>>
              /\ \A j \in 1..(i - 1) : trace[j].op \in AfterBoundOps =>
                    /\ trace[j].res = "ok"
                    /\ Rank(trace[j].op) <= Rank(trace[i].op)
                    /\ Rank(trace[j].op) = Rank(trace[i].op) =>
                          trace[i].op = "request_resource_machine_access"
              /\ Rank(trace[i].op) > 1 =>
                    \E j \in 1..(i - 1) :
                       /\ trace[j].op \in AfterBoundOps
                       /\ Rank(trace[j].op) = Rank(trace[i].op) - 1
        /\ \A i \in Idx :
              trace[i].op = "bind_discharge_macarooon_to_root_macaroon" =>
                 (sso_token # "" => IsBoundWrite(trace[i + 1]))
        /\ \A i \in Idx : trace[i].op = "request_add_contract_token" =>
              /\ contracts # <<>>
              /\ trace[i].b = contracts[1]
              /\ trace[i].a = sso_token
        /\ \A i \in Idx : trace[i].op = "request_contract_machine_attach" =>
              trace[i].a = ContractTokenFor(contracts[1])
        /\ \A i \in Idx :
              (trace[i].op = "print" /\ trace[i].a = "status_content") =>
                 /\ i = Len(trace)
                 /\ \A j \in 1..(i - 1) : trace[j].res = "ok"
                 /\ \E j \in 1..(i - 1) :
                       trace[j].op = "request_contract_machine_attach"
                 /\ GrantNames = cache[MachineTokenKey][1].resourceEntitlements

C14_Witness ==
    /\ command = "attach" /\ pc = "returned" /\ ret = "0"
    /\ contracts = <<"cid2", "cid1">>
    /\ Len(GrantNames) = 2
    /\ \E i \in Idx : trace[i].op = "bind_discharge_macarooon_to_root_macaroon"

Count(op) == Cardinality({i \in Idx : trace[i].op = op})

\* C15. Grant fan-out without retry: a successful attach issues one
\* resource-access request for each name of the issued machine token's
\* resourceEntitlements mapping and for no other name, all after the
\* machine-token exchange; every other remote call is issued at most once
\* per invocation, also after a failure.
C15_GrantFanOut ==
    /\ (command = "attach" /\ pc = "returned" /\ ret = "0"
           /\ ~is_attached(start.cache)) =>
          /\ GrantNames = cache[MachineTokenKey][1].resourceEntitlements
          /\ \A i \in Idx : trace[i].op = "request_resource_machine_access" =>
                \E j \in 1..(i - 1) :
                   /\ trace[j].op = "request_contract_machine_attach"
                   /\ trace[j].res = "ok"
    /\ \A op \in RemoteOps \ {"request_resource_machine_access"} : Count(op) <= 1
    /\ \A i, j \in 1..Len(GrantNames) : i # j => GrantNames[i] # GrantNames[j]

C15_Witness ==
    /\ command = "attach" /\ pc = "returned" /\ ret = "0"
    /\ ~is_attached(start.cache)
    /\ Len(cache[MachineTokenKey][1].resourceEntitlements) = 2
    /\ args.token # ""

\* The entitlements detach has run the can-disable check on, in order.
Checked ==
    LET sel == SelectSeq(trace, LAMBDA ev : ev.op = "can_disable")
    IN  [k \in 1..Len(sel) |-> sel[k].a]

\* C16. Detach teardown is best-effort: on an attached machine with
\* privilege, whatever disable calls report failure, detach goes on to
\* every remaining entitlement of the registry, then deletes the
\* credential entries and returns exit code 0.
C16_DetachBestEffort ==
    (command = "detach" /\ is_attached(start.cache) /\ uid = 0) =>
        /\ pc \in {"detach", "detach_loop", "returned"}
        /\ pc = "detach_loop" => Checked \o todo = ENTITLEMENT_CLASSES
        /\ pc = "returned" =>
              /\ ret = "0" /\ ExitCode(ret) = 0
              /\ Checked = ENTITLEMENT_CLASSES
              /\ \A k \in 1..Len(DetachDeletedKeys) :
                    /\ cache[DetachDeletedKeys[k]] = <<>>
                    /\ \E i \in Idx : /\ trace[i].op = "delete_cache"
                                      /\ trace[i].a = DetachDeletedKeys[k]
              /\ ~is_attached(cache)

C16_Witness ==
    /\ command = "detach" /\ pc = "returned" /\ ret = "0"
    /\ \E i \in Idx : /\ trace[i].op = "disable" /\ trace[i].res = "False"
                      /\ trace[i].a = ENTITLEMENT_CLASSES[1]
    /\ \E i \in Idx : /\ trace[i].op = "disable" /\ trace[i].res = "True"
                      /\ trace[i].a = ENTITLEMENT_CLASSES[2]

\* C17. Detach queries each entitlement of the registry once, in registry
\* order, with the silent can-disable check, and calls disable (silent) on
\* an entitlement if and only if that check returned true.
C17_DetachQueriesOnce ==
    command = "detach" =>
        /\ Len(Checked) <= Len(ENTITLEMENT_CLASSES)
        /\ \A k \in 1..Len(Checked) : Checked[k] = ENTITLEMENT_CLASSES[k]
        /\ (pc = "returned" /\ ret = "0") => Len(Checked) = Len(ENTITLEMENT_CLASSES)
        /\ \A i \in Idx : trace[i].op \in {"can_disable", "disable"} =>
              trace[i].b = "silent"
        /\ \A i \in Idx : trace[i].op = "disable" =>
              /\ i > 1
              /\ trace[i - 1].op = "can_disable"
              /\ trace[i - 1].a = trace[i].a
              /\ trace[i - 1].res = "True"
        /\ \A i \in Idx :
              (trace[i].op = "can_disable" /\ trace[i].res = "True") =>
                 /\ i < Len(trace)
                 /\ trace[i + 1].op = "disable"
                 /\ trace[i + 1].a = trace[i].a

C17_Witness ==
    /\ command = "detach" /\ pc = "returned" /\ ret = "0"
    /\ \E i \in Idx : /\ trace[i].op = "can_disable" /\ trace[i].res = "False"
                      /\ trace[i].a = ENTITLEMENT_CLASSES[1]
                      /\ start.enabled[trace[i].a]
    /\ \E i \in Idx : /\ trace[i].op = "disable"
                      /\ trace[i].a = ENTITLEMENT_CLASSES[2]

\* C18. Attach never persists or uses an empty bound credential: when the
\* bound token obtained is empty attach returns exit code 1, has written
\* nothing to the credential store and has issued no accounts, contracts,
\* contract-token, machine-token or resource-access request; every
\* bound-token value written to the store is non-empty.
C18_NoEmptyBoundToken ==
    /\ (command = "attach" /\ sso_token = ""
           /\ \E i \in Idx :
                 trace[i].op = "bind_discharge_macarooon_to_root_macaroon") =>
          /\ pc = "returned"
          /\ ret = "1" /\ ExitCode(ret) = 1
          /\ cache = start.cache
          /\ NoStoreCall
          /\ \A i \in Idx : trace[i].op \notin AfterBoundOps
    /\ cache[AttachBoundKey] # <<"">>
    /\ \A i \in Idx :
          (trace[i].op = "write_cache" /\ trace[i].a = AttachBoundKey) =>
             trace[i].b # ""
    /\ \A i \in Idx : trace[i].op \in AfterBoundOps \ {"request_contract_machine_attach"} =>
          trace[i].a # ""

C18_Witness ==
    /\ command = "attach" /\ pc = "returned" /\ ret = "1"
    /\ sso_token = ""
    /\ \E i \in Idx : trace[i].op = "bind_discharge_macarooon_to_root_macaroon"
    /\ start.cache[AttachBoundKey] = <<>>

====
